---------------------------- MODULE Spec2Model ----------------------------
(***************************************************************************)
(* Model of the LAN CRUD demo, src/mobile/app.js: the mobile client,       *)
(* component App (lines 28-280): the saved-endpoint path, the Zeroconf     *)
(* discovery listener, the QR fallback, "Olvidar" (forget) and the CRUD    *)
(* requests to /items; the server (lines 527-653); and the QR payload of    *)
(* the web page, src/unnamed/part_000.                                     *)
(*                                                                         *)
(* JavaScript runs each handler to its next await without interruption, so *)
(* one action is one such run: from the event that resumes a handler to    *)
(* the next await of the call chain, the callers' continuations included   *)
(* (an async function that returns or throws resumes its caller in the     *)
(* same turn of the event loop, before any other event is delivered). The  *)
(* effect that depends on baseUrl runs with the commit of the render that  *)
(* changed it.                                                             *)
(*                                                                         *)
(* err, items and title are not read by any property here and are left     *)
(* out, as are the alerts: a setErr or Alert.alert call is a step without  *)
(* effect on the modelled state. The scanner modal (qrOpen) only decides   *)
(* whether the camera delivers codes: onQrScanned stands for the user      *)
(* opening it and a code being read.                                       *)
(*                                                                         *)
(* Under Spec every SecureStore operation completes without error; a fetch *)
(* may answer with any response, reject, or never answer. CrudSpec adds    *)
(* the requests to /items, FaultSpec the SecureStore operations that       *)
(* reject. ServerSpec is the server alone.                                 *)
(***************************************************************************)
EXTENDS Naturals, Sequences, FiniteSets, TLC

VARIABLES
    baseUrl,    \* useState(null): the current endpoint, or NULL
    status,     \* useState("Buscando server..."): the status line
    store,      \* SecureStore item STORE_KEY, or NULL when absent
    startup,    \* position of the startup effect's async function
    saved,      \* connectFromSaved's local: what getItemAsync returned
    calls,      \* the connectWithBaseUrl invocations, by slot
    zcs,        \* every Zeroconf instance created, in order of creation
    forgets,    \* the "Olvidar" handlers that have not finished
    events,     \* number of user and network events so far (bounded)
    nOk,        \* history: probes that returned true so far
    nFail,      \* history: probes that returned false or threw so far
    nForget,    \* history: "Olvidar" presses so far
    poll,       \* the 2 s intervals that are set, each as the baseUrl its load holds
    req,        \* the /items request sent last (NoReq before the first)
    ops,        \* the add and del handlers that have not finished
    pollFailed, \* history: a load against the current endpoint has failed
    proc,       \* the server process: where its shutdown stands
    published,  \* the server's mDNS advertisement is on the network
    db,         \* the server's items table: id -> title
    lastId      \* the table's AUTOINCREMENT counter

\* The CRUD side of the client, and the server.
crud == <<poll, req, ops, pollFailed>>
server == <<proc, published, db, lastId>>

vars == <<baseUrl, status, store, startup, saved, calls, zcs, forgets,
          events, nOk, nFail, nForget, crud, server>>

NULL == "null"

\* Bound of the model: the user and network events of one behaviour (button
\* presses, scanned codes, 'resolved' and 'error' events). The startup
\* effect and the completions of what the events started are not counted.
MaxEvents == 2

\* One slot for the startup's call and one for each event.
CallSlots == 1..(MaxEvents + 1)

DEFAULT_PORT == 4310

\* Addresses a resolved service may carry, and the two servers of the LAN.
Hosts == {"10.0.0.5", "10.0.0.9"}

Url(ip, port) == "http://" \o ip \o ":" \o ToString(port)

Endpoints == {Url(h, DEFAULT_PORT) : h \in Hosts}

\* x.includes(".")
IncludesDot(x) == \E i \in 1..Len(x) : SubSeq(x, i, i) = "."

\* url.startsWith("http")
StartsWithHttp(u) == Len(u) >= 4 /\ SubSeq(u, 1, 4) = "http"

\* service.addresses.find(x => typeof x === "string" && x.includes(".")):
\* the first address with a dot, NULL when there is none.
RECURSIVE FindIp(_)
FindIp(addresses) ==
    IF addresses = <<>> THEN NULL
    ELSE IF IncludesDot(Head(addresses)) THEN Head(addresses)
    ELSE FindIp(Tail(addresses))

\* service.port || DEFAULT_PORT (a missing port is 0 here)
ServicePort(service) == IF service.port = 0 THEN DEFAULT_PORT ELSE service.port

\* The services the listener may resolve: several addresses with an IPv6
\* one first, a service without a port, and one with no IPv4 address.
Services ==
    { [addresses |-> <<"fe80::1", "10.0.0.5">>, port |-> 4310],
      [addresses |-> <<"10.0.0.9">>, port |-> 0],
      [addresses |-> <<"fe80::2">>, port |-> 4310] }

\* What fetch(`${baseUrl}/health`) may produce: a rejection (network error)
\* or a response with res.ok and a body.
Responses ==
    { [kind |-> "reject", ok |-> FALSE, body |-> "none"],
      [kind |-> "response", ok |-> FALSE, body |-> "okTrue"] } \cup
    [kind : {"response"}, ok : {TRUE},
     body : {"okTrue", "okFalse", "noMarker", "notJson"}]

\* tryHealth: "throw" when fetch rejects, else "false" unless res.ok and
\* the parsed body has a truthy ok (a body that does not parse becomes null).
tryHealth(resp) ==
    IF resp.kind = "reject" THEN "throw"
    ELSE IF ~resp.ok THEN "false"
    ELSE IF resp.body = "okTrue" THEN "true"
    ELSE "false"

\* What the fetch of url/health may produce: a text that is no URL of a
\* server makes fetch reject.
Answers(url) ==
    IF url \in Endpoints THEN Responses
    ELSE {resp \in Responses : resp.kind = "reject"}

\* JSON.stringify of a string: the quotes, with " and \ escaped.
RECURSIVE JsonEscape(_)
JsonEscape(s) ==
    IF Len(s) = 0 THEN ""
    ELSE LET c == SubSeq(s, 1, 1) IN
         (IF c = "\"" \/ c = "\\" THEN "\\" \o c ELSE c)
            \o JsonEscape(SubSeq(s, 2, Len(s)))

JsonString(s) == "\"" \o JsonEscape(s) \o "\""

\* The web page (src/unnamed/part_000): its default API base, and the
\* bases it offers from /server-info, `http://${ip}:${PORT}` per LAN address.
DEFAULT_API_BASE == "http://localhost:4310"
ApiBases == {DEFAULT_API_BASE} \cup Endpoints

\* Values of Date.now() (small ones: the digits only matter as text).
Stamps == {1, 1234567}

\* Mutant of qrPayload: the page names the field "url".
qrPayload_OtherName(apiBase, ts) ==
    "{" \o JsonString("url") \o ":" \o JsonString(apiBase)
        \o "," \o JsonString("token") \o ":" \o JsonString("demo-token")
        \o "," \o JsonString("ts") \o ":" \o ToString(ts) \o "}"

\* qrPayload: JSON.stringify({ baseUrl: apiBase, token: "demo-token", ts })
qrPayload(apiBase, ts) ==
    "{" \o JsonString("baseUrl") \o ":" \o JsonString(apiBase)
        \o "," \o JsonString("token") \o ":" \o JsonString("demo-token")
        \o "," \o JsonString("ts") \o ":" \o ToString(ts) \o "}"

\* JSON.parse, for the texts of this model: an object written without
\* white space whose members are strings or unsigned integers, or a bare
\* unsigned integer. The result of a reader is [ok, val, next]: whether it
\* succeeded, what it read, and the index after it.
Ch(t, i) == IF i <= Len(t) THEN SubSeq(t, i, i) ELSE ""
Digits == {"0", "1", "2", "3", "4", "5", "6", "7", "8", "9"}
Fail == [ok |-> FALSE, val |-> "", next |-> 0]

\* The characters of a string after its opening quote, up to the closing
\* one; \" \\ and \/ are the escapes read.
RECURSIVE ReadChars(_, _, _)
ReadChars(t, i, acc) ==
    IF i > Len(t) THEN Fail
    ELSE IF Ch(t, i) = "\"" THEN [ok |-> TRUE, val |-> acc, next |-> i + 1]
    ELSE IF Ch(t, i) = "\\"
      THEN IF Ch(t, i + 1) \in {"\"", "\\", "/"}
             THEN ReadChars(t, i + 2, acc \o Ch(t, i + 1))
             ELSE Fail
    ELSE ReadChars(t, i + 1, acc \o Ch(t, i))

RECURSIVE ReadDigits(_, _, _)
ReadDigits(t, i, acc) ==
    IF Ch(t, i) \in Digits THEN ReadDigits(t, i + 1, acc \o Ch(t, i))
    ELSE [ok |-> Len(acc) > 0, val |-> acc, next |-> i]

ReadValue(t, i) ==
    IF Ch(t, i) = "\"" THEN ReadChars(t, i + 1, "")
    ELSE ReadDigits(t, i, "")

\* The members of an object from index i on; obj maps the names read so
\* far to their values, a repeated name keeping its last value.
RECURSIVE ReadMembers(_, _, _)
ReadMembers(t, i, obj) ==
    IF Ch(t, i) # "\"" THEN Fail
    ELSE LET key == ReadChars(t, i + 1, "") IN
         IF ~key.ok \/ Ch(t, key.next) # ":" THEN Fail
         ELSE LET v == ReadValue(t, key.next + 1)
                  more == [name \in DOMAIN obj \cup {key.val} |->
                             IF name = key.val THEN v.val ELSE obj[name]]
              IN IF ~v.ok THEN Fail
                 ELSE IF Ch(t, v.next) = "," THEN ReadMembers(t, v.next + 1, more)
                 ELSE IF Ch(t, v.next) = "}" /\ v.next = Len(t)
                   THEN [ok |-> TRUE, val |-> more, next |-> v.next + 1]
                 ELSE Fail

NoMembers == [name \in {} |-> ""]

JsonParse(t) ==
    IF t = "{}" THEN [ok |-> TRUE, val |-> NoMembers, next |-> 3]
    ELSE IF Ch(t, 1) = "{" THEN ReadMembers(t, 2, NoMembers)
    ELSE LET n == ReadDigits(t, 1, "") IN
         [ok |-> n.ok /\ n.next = Len(t) + 1, val |-> NoMembers, next |-> n.next]

\* What onQrScanned has of a scanned text after JSON.parse(data): whether
\* it parsed, and parsed?.baseUrl (NULL without one).
ParseQr(t) ==
    LET parsed == JsonParse(t) IN
    [json |-> parsed.ok,
     baseUrl |-> IF parsed.ok /\ "baseUrl" \in DOMAIN parsed.val
                   THEN parsed.val["baseUrl"] ELSE NULL]

\* Texts a code may hold: the web page's payloads, and other texts.
QrTexts ==
    {qrPayload(apiBase, ts) : apiBase \in ApiBases, ts \in Stamps} \cup
    {"hola", "{}", "{\"baseUrl\":\"not-a-url\"}", "{\"baseUrl\":\"httpx\",}"}

\* QR payloads as parsed: text that is not JSON, or a JSON object whose
\* baseUrl is absent (NULL) or a string: an endpoint, an endpoint between
\* spaces, a word, a word that starts with "http"; and what the texts of
\* QrTexts parse to. token and ts are not read by the decoder.
QrPayloads ==
    { [json |-> FALSE, baseUrl |-> NULL] } \cup
    [json : {TRUE},
     baseUrl : Endpoints \cup {NULL, "not-a-url", "httpx", " http://10.0.0.5:4310 "}]
    \cup {ParseQr(t) : t \in QrTexts}

\* s.trim(), for the space character
RECURSIVE TrimStart(_)
TrimStart(s) ==
    IF Len(s) > 0 /\ SubSeq(s, 1, 1) = " " THEN TrimStart(SubSeq(s, 2, Len(s))) ELSE s

RECURSIVE TrimEnd(_)
TrimEnd(s) ==
    IF Len(s) > 0 /\ SubSeq(s, Len(s), Len(s)) = " "
      THEN TrimEnd(SubSeq(s, 1, Len(s) - 1))
      ELSE s

Trim(s) == TrimEnd(TrimStart(s))

\* String(parsed?.baseUrl || "").trim()
QrUrl(data) == IF data.baseUrl = NULL THEN "" ELSE Trim(data.baseUrl)

\* onQrScanned's try block reaches connectWithBaseUrl
QrValid(data) == data.json /\ StartsWithHttp(QrUrl(data))

----------------------------------------------------------------------------
\* A slot of calls that holds no invocation (none yet, or one that ended).
Free ==
    [url |-> NULL, src |-> "none", zc |-> 0, pc |-> "free", health |-> "pending",
     stale |-> FALSE]

\* A new connectWithBaseUrl(url) up to its await of tryHealth. stale is
\* history: a forget finished while the probe was in flight.
NewCall(url, src, z) ==
    [url |-> url, src |-> src, zc |-> z, pc |-> "health", health |-> "pending",
     stale |-> FALSE]

\* A new Zeroconf instance, scanning, with its 6 s timer armed. seen is the
\* baseUrl of the render whose closure the timer callback holds; errored is
\* history: the instance has reported an error.
NewScan(seen) ==
    [active |-> TRUE, timer |-> TRUE, seen |-> seen, errored |-> FALSE]

Active == {z \in DOMAIN zcs : zcs[z].active}
Probing == {i \in CallSlots : calls[i].pc = "health"}
FreeSlots == {i \in CallSlots : calls[i].pc = "free"}
FirstFree == CHOOSE i \in FreeSlots : \A j \in FreeSlots : i <= j

\* The connection side of the client, events aside.
conn == <<baseUrl, status, store, startup, saved, calls, zcs, forgets,
          nOk, nFail, nForget>>

\* api(baseUrl, "/items...", {method}) sends one request.
NoReq == [method |-> "none", url |-> NULL]
Request(method, url) == [method |-> method, url |-> url]

\* load() of a render whose baseUrl is b, up to its await: nothing without
\* a baseUrl, else a GET of b/items.
load(b) == req' = IF b = NULL THEN req ELSE Request("GET", b)

\* Mutant of pollEffect: the effect returns no cleanup, so the interval of
\* the last render is never cleared.
pollEffect_NoCleanup(b) ==
    IF b = baseUrl
      THEN UNCHANGED <<poll, req, pollFailed>>
      ELSE /\ poll' = poll \cup (IF b = NULL THEN {} ELSE {b})
           /\ load(b)
           /\ pollFailed' = FALSE

\* The effect of lines 127-132 after a render whose baseUrl is b: React
\* runs it when b differs from the last render's. The cleanup that the
\* last run returned clears the interval that run had set (a run without a
\* baseUrl set none and returned none); with an endpoint the effect calls
\* load() and sets an interval on that render's load.
pollEffect(b) ==
    IF b = baseUrl
      THEN UNCHANGED <<poll, req, pollFailed>>
      ELSE /\ poll' = (poll \ {baseUrl}) \cup (IF b = NULL THEN {} ELSE {b})
           /\ load(b)
           /\ pollFailed' = FALSE

\* State after the first render: the effect of lines 114-125 has called
\* connectFromSaved, which awaits SecureStore.getItemAsync. The store holds
\* what an earlier session left there.
Init ==
    /\ baseUrl = NULL
    /\ status = "Buscando server..."
    /\ store \in Endpoints \cup {NULL}
    /\ startup = "getItem"
    /\ saved = "unread"
    /\ calls = [i \in CallSlots |-> Free]
    /\ zcs = <<>>
    /\ forgets = <<>>
    /\ events = 0
    /\ nOk = 0
    /\ nFail = 0
    /\ nForget = 0
    /\ poll = {}
    /\ req = NoReq
    /\ ops = <<>>
    /\ pollFailed = FALSE
    /\ proc = "running"
    /\ published = TRUE
    /\ db = <<>>
    /\ lastId = 0

\* connectWithBaseUrl(url) up to its first await.
connectWithBaseUrl(url, src, z) ==
    /\ calls' = [calls EXCEPT ![FirstFree] = NewCall(url, src, z)]
    /\ status' = "Probando conexion..."

\* startZeroconfDiscovery (lines 76-112): new Zeroconf(), the status line,
\* scan(), the handlers and the 6 s timer. The stop function it returns is
\* dropped by both of its callers.
startZeroconfDiscovery(seen) ==
    /\ zcs' = Append(zcs, NewScan(seen))
    /\ status' = "Buscando por mDNS (Zeroconf)..."

\* The startup effect (lines 114-125) resumed by getItemAsync:
\* connectFromSaved calls connectWithBaseUrl(saved) when there is a saved
\* value, and otherwise returns false and the effect starts discovery. The
\* effect's closure is the first render's, where baseUrl is null.
StartupRead ==
    /\ startup = "getItem"
    /\ saved' = store
    /\ IF store # NULL
         THEN /\ startup' = "connect"
              /\ connectWithBaseUrl(store, "saved", 0)
              /\ UNCHANGED zcs
         ELSE /\ startup' = "done"
              /\ startZeroconfDiscovery(NULL)
              /\ UNCHANGED calls
    /\ UNCHANGED <<baseUrl, store, forgets, events, nOk, nForget, nFail>>
    /\ UNCHANGED <<crud, server>>

\* Mutant of ProbeOk: setBaseUrl moved before the await of setItemAsync.
ProbeOk_CommitsEarly(i) ==
    /\ calls' = [calls EXCEPT ![i].pc = "setItem", ![i].health = "true"]
    /\ nOk' = nOk + 1
    /\ baseUrl' = calls[i].url
    /\ UNCHANGED <<status, store, startup, saved, zcs, forgets, events, nFail,
                   nForget>>
    /\ UNCHANGED <<crud, server>>

\* connectWithBaseUrl after a positive probe: it awaits setItemAsync.
ProbeOk(i) ==
    /\ calls' = [calls EXCEPT ![i].pc = "setItem", ![i].health = "true"]
    /\ nOk' = nOk + 1
    /\ UNCHANGED <<baseUrl, status, store, startup, saved, zcs, forgets,
                   events, nFail, nForget>>
    /\ UNCHANGED <<crud, server>>

\* Mutant of OnThrow: the effect does not start discovery when the saved
\* endpoint fails.
OnThrow_NoDiscovery(i, r) ==
    /\ startup' = IF calls[i].src = "saved" THEN "done" ELSE startup
    /\ status' = IF r = "false" THEN "No se pudo conectar." ELSE status
    /\ UNCHANGED zcs

\* Mutant of OnThrow: the 'resolved' handler stops its Zeroconf when the
\* candidate fails, as it does when the candidate connects.
OnThrow_StopsScan(i, r) ==
    IF calls[i].src = "saved"
      THEN /\ startup' = "done"
           /\ startZeroconfDiscovery(NULL)
      ELSE /\ status' = IF r = "false" THEN "No se pudo conectar." ELSE status
           /\ zcs' = IF calls[i].src = "resolved"
                       THEN [zcs EXCEPT ![calls[i].zc].active = FALSE]
                       ELSE zcs
           /\ UNCHANGED startup

\* What the caller's catch does when connectWithBaseUrl throws:
\* connectFromSaved returns false and the effect starts discovery (the
\* last setStatus of the turn is discovery's); the 'resolved' handler and
\* onQrScanned only report (setErr, Alert).
OnThrow(i, r) ==
    IF calls[i].src = "saved"
      THEN /\ startup' = "done"
           /\ startZeroconfDiscovery(NULL)
      ELSE /\ status' = IF r = "false" THEN "No se pudo conectar." ELSE status
           /\ UNCHANGED <<startup, zcs>>

\* connectWithBaseUrl throws: after setStatus("No se pudo conectar.") on a
\* negative probe, at once when tryHealth itself threw (r = "throw").
ProbeFailed(i, r) ==
    /\ calls' = [calls EXCEPT ![i] = Free]
    /\ OnThrow(i, r)
    /\ nFail' = nFail + 1
    /\ UNCHANGED <<baseUrl, store, saved, forgets, events, nOk, nForget>>
    /\ UNCHANGED <<crud, server>>

\* The fetch of /health of call i completes with resp.
HealthReturns(i, resp) ==
    /\ calls[i].pc = "health"
    /\ resp \in Answers(calls[i].url)
    /\ IF tryHealth(resp) = "true" THEN ProbeOk(i) ELSE ProbeFailed(i, tryHealth(resp))

\* SecureStore.setItemAsync(STORE_KEY, url) of call i takes effect.
StoreSetItem(i) ==
    /\ calls[i].pc = "setItem"
    /\ store' = calls[i].url
    /\ calls' = [calls EXCEPT ![i].pc = "written"]
    /\ UNCHANGED <<baseUrl, status, startup, saved, zcs, forgets, events,
                   nOk, nForget, nFail>>
    /\ UNCHANGED <<crud, server>>

\* Mutant of AfterConnect: the effect ignores okSaved and goes on to start
\* discovery (its status line aside).
AfterConnect_IgnoresOkSaved(i) ==
    /\ startup' = IF calls[i].src = "saved" THEN "done" ELSE startup
    /\ zcs' = IF calls[i].src = "resolved"
                THEN [zcs EXCEPT ![calls[i].zc].active = FALSE]
                ELSE IF calls[i].src = "saved"
                       THEN Append(zcs, NewScan(NULL))
                       ELSE zcs

\* What the caller of connectWithBaseUrl does when it returns: the startup
\* effect ends (okSaved), the 'resolved' handler stops its own Zeroconf.
AfterConnect(i) ==
    /\ startup' = IF calls[i].src = "saved" THEN "done" ELSE startup
    /\ zcs' = IF calls[i].src = "resolved"
                THEN [zcs EXCEPT ![calls[i].zc].active = FALSE]
                ELSE zcs

\* connectWithBaseUrl resumed after setItemAsync: setBaseUrl, setStatus.
ConnectCommit(i) ==
    /\ calls[i].pc = "written"
    /\ baseUrl' = calls[i].url
    /\ status' = "Conectado"
    /\ calls' = [calls EXCEPT ![i] = Free]
    /\ AfterConnect(i)
    /\ UNCHANGED <<store, saved, forgets, events, nOk, nForget, nFail>>
    /\ pollEffect(calls[i].url)
    /\ UNCHANGED <<ops, server>>

\* zeroconf.on("resolved"): the first dotted address and the port make the
\* url; without such an address the handler returns.
ZeroconfResolved(z, service) ==
    /\ z \in Active
    /\ events < MaxEvents
    /\ events' = events + 1
    /\ LET ip == FindIp(service.addresses) IN
       IF ip = NULL
         THEN UNCHANGED <<calls, status>>
         ELSE connectWithBaseUrl(Url(ip, ServicePort(service)), "resolved", z)
    /\ UNCHANGED <<baseUrl, store, startup, saved, zcs, forgets, nOk, nForget, nFail>>
    /\ UNCHANGED <<crud, server>>

\* Mutant of ZeroconfError: the handler reports a plain failure, without
\* the hint at the QR code.
ZeroconfError_NoHint(z) ==
    /\ z \in Active
    /\ events < MaxEvents
    /\ events' = events + 1
    /\ status' = "No se pudo conectar."
    /\ zcs' = [zcs EXCEPT ![z].errored = TRUE]
    /\ UNCHANGED <<baseUrl, store, startup, saved, calls, forgets, nOk, nForget, nFail>>
    /\ UNCHANGED <<crud, server>>

\* zeroconf.on("error"): the status line only; the instance is not stopped.
ZeroconfError(z) ==
    /\ z \in Active
    /\ events < MaxEvents
    /\ events' = events + 1
    /\ status' = "Zeroconf error (usa QR)"
    /\ zcs' = [zcs EXCEPT ![z].errored = TRUE]
    /\ UNCHANGED <<baseUrl, store, startup, saved, calls, forgets, nOk, nForget, nFail>>
    /\ UNCHANGED <<crud, server>>

\* The 6 s timer of instance z fires: it tests the baseUrl of its closure
\* (which is then dropped with the timer).
DiscoveryTimeout(z) ==
    /\ z \in DOMAIN zcs
    /\ zcs[z].timer
    /\ zcs' = [zcs EXCEPT ![z].timer = FALSE, ![z].seen = NULL]
    /\ status' = IF zcs[z].seen = NULL
                   THEN "No se encontro por mDNS. Usa QR (fallback)."
                   ELSE status
    /\ UNCHANGED <<baseUrl, store, startup, saved, calls, forgets, events,
                   nOk, nForget, nFail>>
    /\ UNCHANGED <<crud, server>>

\* "Reintentar mDNS": startZeroconfDiscovery() of the current render.
RetryMdns ==
    /\ events < MaxEvents
    /\ events' = events + 1
    /\ startZeroconfDiscovery(baseUrl)
    /\ UNCHANGED <<baseUrl, store, startup, saved, calls, forgets, nOk, nForget, nFail>>
    /\ UNCHANGED <<crud, server>>

\* onQrScanned: a payload that parses and whose baseUrl starts with "http"
\* closes the modal and calls connectWithBaseUrl; any other raises an alert.
onQrScanned(data) ==
    /\ events < MaxEvents
    /\ events' = events + 1
    /\ IF QrValid(data)
         THEN connectWithBaseUrl(QrUrl(data), "qr", 0)
         ELSE UNCHANGED <<calls, status>>
    /\ UNCHANGED <<baseUrl, store, startup, saved, zcs, forgets, nOk, nForget, nFail>>
    /\ UNCHANGED <<crud, server>>

\* "Olvidar" (lines 200-205): the handler awaits deleteItemAsync, ...
ForgetPress ==
    /\ events < MaxEvents
    /\ events' = events + 1
    /\ forgets' = Append(forgets, "delete")
    /\ nForget' = nForget + 1
    /\ UNCHANGED <<baseUrl, status, store, startup, saved, calls, zcs, nOk, nFail>>
    /\ UNCHANGED <<crud, server>>

\* ... the deletion takes effect, ...
StoreDelete(f) ==
    /\ f \in DOMAIN forgets
    /\ forgets[f] = "delete"
    /\ store' = NULL
    /\ forgets' = [forgets EXCEPT ![f] = "deleted"]
    /\ UNCHANGED <<baseUrl, status, startup, saved, calls, zcs, events,
                   nOk, nForget, nFail>>
    /\ UNCHANGED <<crud, server>>

\* ... and the handler resumes: setBaseUrl(null), setStatus.
ForgetCommit(f) ==
    /\ f \in DOMAIN forgets
    /\ forgets[f] = "deleted"
    /\ baseUrl' = NULL
    /\ status' = "BaseUrl borrada. Busca de nuevo."
    /\ forgets' = SubSeq(forgets, 1, f - 1) \o SubSeq(forgets, f + 1, Len(forgets))
    /\ calls' = [i \in CallSlots |->
                   IF i \in Probing THEN [calls[i] EXCEPT !.stale = TRUE] ELSE calls[i]]
    /\ UNCHANGED <<store, startup, saved, zcs, events, nOk, nForget, nFail>>
    /\ pollEffect(NULL)
    /\ UNCHANGED <<ops, server>>

----------------------------------------------------------------------------
\* The 2 s interval u fires: load() of the render that set it.
PollTick(u) ==
    /\ u \in poll
    /\ load(u)
    /\ UNCHANGED <<conn, events, poll, ops, pollFailed, server>>

\* "Refrescar": load() of the current render.
Refresh ==
    /\ load(baseUrl)
    /\ UNCHANGED <<conn, events, poll, ops, pollFailed, server>>

\* A load whose request went to the current endpoint gets an error, or no
\* answer at all: its catch (lines 46-48) calls setErr and nothing else.
LoadFails ==
    /\ baseUrl # NULL
    /\ req = Request("GET", baseUrl)
    /\ pollFailed' = TRUE
    /\ UNCHANGED <<conn, events, poll, req, ops, server>>

\* add() (lines 134-143) with a title typed, up to its await of the POST.
AddPress ==
    /\ events < MaxEvents
    /\ events' = events + 1
    /\ IF baseUrl = NULL
         THEN UNCHANGED <<req, ops>>
         ELSE /\ req' = Request("POST", baseUrl)
              /\ ops' = Append(ops, [kind |-> "add", url |-> baseUrl])
    /\ UNCHANGED <<conn, poll, pollFailed, server>>

\* The handler k of ops ends.
Drop(k) == ops' = SubSeq(ops, 1, k - 1) \o SubSeq(ops, k + 1, Len(ops))

\* The POST of add k returns: on success add awaits load() of its own
\* render, on failure it calls setErr.
AddReturns(k, ok) ==
    /\ k \in DOMAIN ops
    /\ ops[k].kind = "add"
    /\ Drop(k)
    /\ IF ok THEN load(ops[k].url) ELSE UNCHANGED req
    /\ UNCHANGED <<conn, events, poll, pollFailed, server>>

\* del(item) (lines 145-162): with a baseUrl it shows the "Eliminar" alert,
\* whose onPress closure holds the baseUrl of this render.
DelPress ==
    /\ events < MaxEvents
    /\ events' = events + 1
    /\ ops' = IF baseUrl = NULL THEN ops
              ELSE Append(ops, [kind |-> "ask", url |-> baseUrl])
    /\ UNCHANGED <<conn, poll, req, pollFailed, server>>

\* The user answers the alert: "Eliminar" sends the DELETE, "Cancelar"
\* ends the handler.
DelAnswer(k, confirm) ==
    /\ k \in DOMAIN ops
    /\ ops[k].kind = "ask"
    /\ IF confirm
         THEN /\ req' = Request("DELETE", ops[k].url)
              /\ ops' = [ops EXCEPT ![k].kind = "del"]
         ELSE /\ Drop(k)
              /\ UNCHANGED req
    /\ UNCHANGED <<conn, events, poll, pollFailed, server>>

\* The DELETE of del k returns: load() of the closure on success.
DelReturns(k, ok) ==
    /\ k \in DOMAIN ops
    /\ ops[k].kind = "del"
    /\ Drop(k)
    /\ IF ok THEN load(ops[k].url) ELSE UNCHANGED req
    /\ UNCHANGED <<conn, events, poll, pollFailed, server>>

Next ==
    \/ StartupRead
    \/ \E i \in CallSlots, resp \in Responses : HealthReturns(i, resp)
    \/ \E i \in CallSlots : StoreSetItem(i)
    \/ \E i \in CallSlots : ConnectCommit(i)
    \/ \E z \in 1..(MaxEvents + 1), service \in Services : ZeroconfResolved(z, service)
    \/ \E z \in 1..(MaxEvents + 1) : ZeroconfError(z)
    \/ \E z \in 1..(MaxEvents + 1) : DiscoveryTimeout(z)
    \/ RetryMdns
    \/ \E data \in QrPayloads : onQrScanned(data)
    \/ ForgetPress
    \/ \E f \in 1..MaxEvents : StoreDelete(f)
    \/ \E f \in 1..MaxEvents : ForgetCommit(f)

\* The connection side of the client. No CRUD action writes a variable of
\* conn, so what Spec shows of them holds with the CRUD actions added.
Spec == Init /\ [][Next]_vars

CrudNext ==
    \/ Next
    \/ \E u \in Endpoints : PollTick(u)
    \/ Refresh
    \/ LoadFails
    \/ AddPress
    \/ \E k \in 1..MaxEvents, ok \in BOOLEAN : AddReturns(k, ok)
    \/ DelPress
    \/ \E k \in 1..MaxEvents, confirm \in BOOLEAN : DelAnswer(k, confirm)
    \/ \E k \in 1..MaxEvents, ok \in BOOLEAN : DelReturns(k, ok)

\* The client with its requests to /items.
CrudSpec == Init /\ [][CrudNext]_vars

----------------------------------------------------------------------------
\* The internal steps the runtime always takes in the end: a store
\* operation completes and the handler awaiting it resumes. A fetch may
\* never answer, so HealthReturns is not among them.
FairSpec ==
    /\ Spec
    /\ WF_vars(StartupRead)
    /\ \A i \in CallSlots : WF_vars(StoreSetItem(i)) /\ WF_vars(ConnectCommit(i))

----------------------------------------------------------------------------
\* SecureStore operations that reject (keystore unavailable, I/O error).

\* getItemAsync rejects: the await of line 64 is outside connectFromSaved's
\* try, so connectFromSaved rejects, and with it the effect's async
\* function, which nothing catches.
StartupReadFails ==
    /\ startup = "getItem"
    /\ startup' = "failed"
    /\ UNCHANGED <<baseUrl, status, store, saved, calls, zcs, forgets, events,
                   nOk, nFail, nForget, crud, server>>

\* setItemAsync of call i rejects: connectWithBaseUrl throws at line 58,
\* before setBaseUrl, and its caller's catch runs.
StoreSetItemFails(i) ==
    /\ calls[i].pc = "setItem"
    /\ calls' = [calls EXCEPT ![i] = Free]
    /\ OnThrow(i, "throw")
    /\ UNCHANGED <<baseUrl, store, saved, forgets, events, nOk, nFail, nForget,
                   crud, server>>

\* deleteItemAsync rejects: the "Olvidar" handler rejects at line 201.
StoreDeleteFails(f) ==
    /\ f \in DOMAIN forgets
    /\ forgets[f] = "delete"
    /\ forgets' = SubSeq(forgets, 1, f - 1) \o SubSeq(forgets, f + 1, Len(forgets))
    /\ UNCHANGED <<baseUrl, status, store, startup, saved, calls, zcs, events,
                   nOk, nFail, nForget, crud, server>>

FaultNext ==
    \/ Next
    \/ StartupReadFails
    \/ \E i \in CallSlots : StoreSetItemFails(i)
    \/ \E f \in 1..MaxEvents : StoreDeleteFails(f)

\* The client with a store that may fail.
FaultSpec == Init /\ [][FaultNext]_vars

----------------------------------------------------------------------------
\* The server (lines 527-653). It is coupled to the client only through the
\* answers to fetch and the services a scan resolves, which the client's
\* actions take from Responses and Services; its own steps are checked
\* under ServerSpec.

\* Bound: the rows the table is given in one behaviour.
MaxRows == 3

\* Titles a request body may carry: req.body?.title ?? ""
Titles == {"a", " b ", ""}

\* The process accepts requests: until server.close().
Listening == proc \in {"running", "unpublishing"}

\* app.post("/items"): 400 without a title, else INSERT with the next id.
PostItem(title) ==
    /\ Listening
    /\ lastId < MaxRows
    /\ IF Trim(title) = ""
         THEN UNCHANGED <<db, lastId>>
         ELSE /\ lastId' = lastId + 1
              /\ db' = [j \in DOMAIN db \cup {lastId + 1} |->
                          IF j = lastId + 1 THEN Trim(title) ELSE db[j]]
    /\ UNCHANGED <<conn, events, crud, proc, published>>

\* app.put("/items/:id"): 400 for an id that is not positive or an empty
\* title, 404 for an unknown id, else UPDATE.
PutItem(id, title) ==
    /\ Listening
    /\ db' = IF id <= 0 \/ Trim(title) = "" \/ id \notin DOMAIN db
               THEN db
               ELSE [db EXCEPT ![id] = Trim(title)]
    /\ UNCHANGED <<conn, events, crud, proc, published, lastId>>

\* app.delete("/items/:id"): 400, 404, else DELETE.
DeleteItem(id) ==
    /\ Listening
    /\ db' = IF id <= 0 \/ id \notin DOMAIN db
               THEN db
               ELSE [j \in DOMAIN db \ {id} |-> db[j]]
    /\ UNCHANGED <<conn, events, crud, proc, published, lastId>>

\* SIGINT: the handler of lines 648-653 calls bonjour.unpublishAll.
Sigint ==
    /\ proc = "running"
    /\ proc' = "unpublishing"
    /\ UNCHANGED <<conn, events, crud, published, db, lastId>>

\* unpublishAll's callback: the goodbye is out; destroy, server.close.
UnpublishDone ==
    /\ proc = "unpublishing"
    /\ published' = FALSE
    /\ proc' = "closing"
    /\ UNCHANGED <<conn, events, crud, db, lastId>>

\* server.close's callback: process.exit(0).
CloseDone ==
    /\ proc = "closing"
    /\ proc' = "exited"
    /\ UNCHANGED <<conn, events, crud, published, db, lastId>>

\* Any other end of the process, for which the program installs no
\* handler: SIGTERM, SIGHUP, an uncaught exception. Node exits at once.
Terminated ==
    /\ proc # "exited"
    /\ proc' = "exited"
    /\ UNCHANGED <<conn, events, crud, published, db, lastId>>

ServerNext ==
    \/ \E title \in Titles : PostItem(title)
    \/ \E id \in 0..MaxRows, title \in Titles : PutItem(id, title)
    \/ \E id \in 0..MaxRows : DeleteItem(id)
    \/ Sigint
    \/ UnpublishDone
    \/ CloseDone
    \/ Terminated

ServerSpec == Init /\ [][ServerNext]_vars

----------------------------------------------------------------------------
Quiescent == FreeSlots = CallSlots /\ forgets = <<>>

\* Steps of call i: connectWithBaseUrl returns, or throws.
Commits(i) == calls[i].pc = "written" /\ calls'[i].pc = "free"
Throws(i) == calls[i].pc = "health" /\ calls'[i].pc = "free"

\* The status phrases that point the user to the QR code.
QrHints == {"Zeroconf error (usa QR)", "No se encontro por mDNS. Usa QR (fallback)."}

\* C1: when the probe of the saved endpoint E succeeds, the startup ends
\* with baseUrl = E and the status "Conectado" without starting a scan:
\* the step that ends it adds no Zeroconf instance, a startup that no user
\* or network event accompanied leaves none at all, and once the probe of E
\* has returned true the client does get to baseUrl = E.
C1_SavedProbeOk ==
    /\ [][\A i \in CallSlots :
            (calls[i].src = "saved" /\ Commits(i)) =>
                /\ baseUrl' = saved /\ saved \in Endpoints
                /\ status' = "Conectado"
                /\ startup' = "done"
                /\ zcs' = zcs]_vars
    /\ []((events = 0 /\ startup = "done" /\ nOk = 1) =>
            (baseUrl = saved /\ zcs = <<>>))
    /\ (\E i \in CallSlots : calls[i].src = "saved" /\ calls[i].health = "true")
         ~> (baseUrl = saved)

C1_Witness ==
    /\ events = 0 /\ startup = "done" /\ nOk = 1
    /\ baseUrl \in Endpoints /\ baseUrl = saved /\ zcs = <<>>

\* C2: when the probe of the saved endpoint E fails (false, or a thrown
\* network error), that step leaves baseUrl and the store as they were and
\* starts a scan; a startup that no user or network event accompanied ends
\* unconnected, scanning, with E still in the store.
C2_SavedProbeFails ==
    /\ [][\A i \in CallSlots :
            (calls[i].src = "saved" /\ Throws(i)) =>
                /\ baseUrl' = baseUrl
                /\ store' = store
                /\ startup' = "done"
                /\ Len(zcs') = Len(zcs) + 1
                /\ zcs'[Len(zcs')].active]_vars
    /\ []((events = 0 /\ startup = "done" /\ saved \in Endpoints /\ nOk = 0) =>
            (baseUrl = NULL /\ store = saved /\ Active # {}))

C2_Witness ==
    /\ events = 0 /\ startup = "done" /\ saved \in Endpoints /\ nFail = 1
    /\ baseUrl = NULL /\ store = saved /\ Active # {}

\* C3: once a candidate of a discovery cycle has connected (its handler
\* has stopped the cycle's Zeroconf), no other candidate of that cycle
\* changes baseUrl.
C3_FirstValidatedWins ==
    [][\A i \in CallSlots :
         (calls[i].src = "resolved" /\ Commits(i) /\ ~zcs[calls[i].zc].active) =>
             baseUrl' = baseUrl]_vars

\* C4: a call whose probe was in flight when a forget finished changes
\* neither baseUrl nor the store afterwards.
C4_ForgetCancelsInFlight ==
    [][\A i \in CallSlots :
         (calls[i].stale /\ calls'[i] # calls[i]) =>
             (baseUrl' = baseUrl /\ store' = store)]_vars

\* C5: at most one health probe is outstanding.
C5_OneProbeOutstanding == Cardinality(Probing) <= 1

\* C6: baseUrl is set to an endpoint E only by a call for E whose probe had
\* returned true and whose store write had taken effect before that step;
\* so whenever baseUrl is set some probe has returned true.
C6_ProbedAndStoredBeforeConnected ==
    /\ [][(baseUrl' # baseUrl /\ baseUrl' # NULL) =>
            \E i \in CallSlots :
                /\ calls[i].url = baseUrl'
                /\ calls[i].health = "true"
                /\ calls[i].pc = "written"]_vars
    /\ [](baseUrl # NULL => nOk > 0)

C6_Witness == baseUrl \in Endpoints /\ store = baseUrl

\* C7: while the client is connected no Zeroconf scan is active.
C7_NoScanWhileConnected == baseUrl # NULL => Active = {}

\* C8: at most one Zeroconf scan is active.
C8_OneListener == Cardinality(Active) <= 1

\* C9: with no saved endpoint, a discovered candidate whose probe fails
\* leaves the scans, baseUrl and the store as they were, and as long as no
\* probe has succeeded the client is unconnected, the store empty and every
\* scan listening; a discovered candidate whose probe succeeds sets baseUrl
\* to its url, and when it is the only one that succeeded (and nothing was
\* forgotten) the client ends with baseUrl and the store both holding it.
C9_FailedThenSucceeded ==
    /\ [][\A i \in CallSlots :
            (calls[i].src = "resolved" /\ Throws(i)) =>
                (zcs' = zcs /\ baseUrl' = baseUrl /\ store' = store)]_vars
    /\ [][\A i \in CallSlots :
            (calls[i].src = "resolved" /\ Commits(i)) =>
                (baseUrl' = calls[i].url /\ status' = "Conectado")]_vars
    /\ []((saved = NULL /\ nOk = 0 /\ nForget = 0) =>
            (baseUrl = NULL /\ store = NULL /\ Active = DOMAIN zcs))
    /\ []((saved = NULL /\ nOk = 1 /\ nForget = 0 /\ Quiescent) =>
            (baseUrl \in Endpoints /\ store = baseUrl))

C9_Witness ==
    /\ saved = NULL /\ nForget = 0 /\ nFail = 1 /\ nOk = 1 /\ Quiescent
    /\ Len(zcs) = 1 /\ ~zcs[1].active
    /\ status = "Conectado"
    /\ baseUrl \in Endpoints /\ store = baseUrl

\* C10: a Zeroconf 'error' only sets the status line, to a phrase that
\* points to the QR code: baseUrl, the store and the calls stay as they
\* were and the instance keeps listening; while the user does nothing the
\* status stays such a phrase; and a QR scan and a retry remain possible.
C10_ErrorKeepsSearching ==
    /\ [][\A z \in DOMAIN zcs :
            (~zcs[z].errored /\ zcs'[z].errored) =>
                /\ status' \in QrHints
                /\ baseUrl' = baseUrl /\ store' = store /\ calls' = calls
                /\ zcs'[z].active]_vars
    /\ [][(status \in QrHints /\ status' # status /\ calls' = calls
             /\ forgets' = forgets /\ Len(zcs') = Len(zcs)) =>
                status' \in QrHints]_vars
    /\ []((\E z \in DOMAIN zcs : zcs[z].errored) /\ events < MaxEvents =>
            /\ ENABLED RetryMdns
            /\ \A u \in Endpoints : ENABLED onQrScanned([json |-> TRUE, baseUrl |-> u]))

C10_Witness ==
    /\ saved = NULL /\ Len(zcs) = 1
    /\ zcs[1].errored /\ zcs[1].active
    /\ baseUrl \in Endpoints /\ status = "Conectado"

----------------------------------------------------------------------------
\* A baseUrl that begins with a URL scheme, "http://" or "https://".
BeginsWithScheme(u) ==
    \/ Len(u) >= 7 /\ SubSeq(u, 1, 7) = "http://"
    \/ Len(u) >= 8 /\ SubSeq(u, 1, 8) = "https://"

\* A payload that decodes to an endpoint: it parses and carries a baseUrl
\* that is a URL (spaces around it aside).
DecodableCode(data) ==
    data.json /\ data.baseUrl # NULL /\ BeginsWithScheme(Trim(data.baseUrl))

\* C11: a scanned payload yields a candidate, which is then probed, exactly
\* when it parses and its baseUrl is a URL, and the candidate is that
\* baseUrl; any other payload starts no probe.
C11_DecodesExactlyUrls ==
    [][\A data \in QrPayloads :
         onQrScanned(data) =>
           IF DecodableCode(data)
             THEN \E i \in CallSlots :
                    /\ calls[i].pc = "free"
                    /\ calls'[i] = NewCall(Trim(data.baseUrl), "qr", 0)
             ELSE calls' = calls]_vars

\* C12: the scan of a payload that does not decode to an endpoint leaves
\* baseUrl, the status line and the store as they were.
C12_InvalidScanChangesNothing ==
    [][\A data \in QrPayloads :
         (onQrScanned(data) /\ ~DecodableCode(data)) =>
           /\ baseUrl' = baseUrl
           /\ status' = status
           /\ store' = store]_vars

\* C13: every request to /items goes out while the client is connected,
\* and to the endpoint it is connected to when the request is sent.
C13_RequestsGoToCurrentEndpoint ==
    [][req' # req => (baseUrl' # NULL /\ req'.url = baseUrl')]_vars

\* Nothing of the client is under way: no probe, store operation, CRUD
\* handler, scan or discovery timer. Only the interval goes on firing.
AtRest ==
    /\ startup = "done"
    /\ Quiescent
    /\ ops = <<>>
    /\ \A z \in DOMAIN zcs : ~zcs[z].active /\ ~zcs[z].timer

\* C14: once a periodic request against the connected endpoint has failed
\* the client leaves the connected state and searches again; so it never
\* comes to rest still connected after such a failure.
C14_FailedPollLeavesConnected ==
    (pollFailed /\ baseUrl # NULL) => ~AtRest

\* C15: when the read of the saved endpoint fails at startup the client
\* goes on as if nothing were saved: the step in which the read fails starts
\* discovery, and the client is then searching.
C15_ReadErrorStartsDiscovery ==
    [][(startup = "getItem" /\ startup' = "failed") =>
         /\ Len(zcs') = Len(zcs) + 1
         /\ zcs'[Len(zcs')].active
         /\ baseUrl' = NULL]_vars

\* C16: when the probe of a candidate has succeeded and the write of the
\* endpoint to the store fails, the call still ends with the client
\* connected to the candidate.
C16_WriteErrorStillConnects ==
    [][\A i \in CallSlots :
         (calls[i].pc = "setItem" /\ calls'[i].pc = "free") =>
           /\ baseUrl' = calls[i].url
           /\ status' = "Conectado"]_vars

\* C17: the status line shows "Conectado" exactly when baseUrl is set.
C17_StatusReflectsConnection ==
    (status = "Conectado") <=> (baseUrl # NULL)

\* C18: whatever the fetch of /health produces, the probe returns true or
\* false and never raises, and it returns true only for a success status
\* with a body whose ok is truthy.
C18_ProbeNeverRaises ==
    [][\A i \in CallSlots, resp \in Responses :
         HealthReturns(i, resp) =>
           /\ tryHealth(resp) \in {"true", "false"}
           /\ tryHealth(resp) = "true" <=>
                (resp.kind = "response" /\ resp.ok /\ resp.body = "okTrue")]_vars

\* C19: every probe that is started completes, whether or not the server
\* ever answers.
C19_ProbeCompletes ==
    \A i \in CallSlots : (calls[i].pc = "health") ~> (calls[i].pc # "health")

\* C20: the server's advertisement is on the network while the process
\* runs, and is retracted by the time the process has exited, however it
\* was shut down.
C20_AdvertisementRetractedOnExit ==
    /\ proc = "running" => published
    /\ proc = "exited" => ~published

\* C21: one Zeroconf instance probes each endpoint it resolves at most
\* once; so no two probes of the same endpoint, started by 'resolved'
\* events of the same instance, are ever in flight together.
C21_ResolvedProbedOnce ==
    \A i, j \in Probing :
        (/\ i # j
         /\ calls[i].src = "resolved" /\ calls[j].src = "resolved"
         /\ calls[i].zc = calls[j].zc) => calls[i].url # calls[j].url

\* C22: an interval is set only while the client is connected, there is
\* never more than one, and its load holds the current endpoint: a forget
\* or a change of endpoint clears the interval of the endpoint left.
C22_OnePollingTimer ==
    poll = IF baseUrl = NULL THEN {} ELSE {baseUrl}

\* Connected to another endpoint than the saved one the session began
\* with, the interval of the first cleared, the second's set and polling.
C22_Witness ==
    /\ nOk = 2
    /\ saved \in Endpoints
    /\ baseUrl \in Endpoints \ {saved}
    /\ poll = {baseUrl}
    /\ req = Request("GET", baseUrl)
    /\ Quiescent

\* C23: whenever no probe, store write or forget is in progress, the store
\* agrees with the connection: a client connected to E has E in the store.
C23_StoreAgreesAtRest ==
    Quiescent => (baseUrl # NULL => store = baseUrl)

\* The codes the web page shows: an API base and what the decoder has of
\* the page's payload for it after JSON.parse.
WebCodes ==
    {[apiBase |-> apiBase, data |-> ParseQr(qrPayload(apiBase, ts))] :
        apiBase \in ApiBases, ts \in Stamps}

\* C24: the scan of the payload the web page makes for an API base starts
\* a probe of exactly that base.
C24_QrRoundTrip ==
    [][\A w \in WebCodes :
         onQrScanned(w.data) =>
           \E i \in CallSlots :
             /\ calls[i].pc = "free"
             /\ calls'[i] = NewCall(w.apiBase, "qr", 0)]_vars

\* The page's default base, scanned, is being probed.
C24_Witness ==
    \E i \in CallSlots : calls[i] = NewCall(DEFAULT_API_BASE, "qr", 0)

============================================================================
